---- MODULE Spec2Model ----
(***************************************************************************)
(* Result cache of H2Integrate: CacheBaseConfig / CacheBaseClass           *)
(* (h2integrate/core/model_baseclasses.py) and the evaluations that use    *)
(* it.  Python values are modelled with their kind, text conversion        *)
(* (str / repr) is modelled character by character on TLA+ strings, the    *)
(* file system as a set of directories and a map from paths to the chunks  *)
(* written so far.  Further sections follow single components outside the  *)
(* cache: HOPPComponent and its project lifetime, the sizing parameters of *)
(* resizeable performance models, the iron-reduction and arc-furnace cost  *)
(* and performance models, and save_case_timeseries_as_csv.                *)
(***************************************************************************)
EXTENDS Integers, Sequences, FiniteSets, TLC

(***************************************************************************)
(* Bounds of the model.                                                    *)
(***************************************************************************)
\* number of process restarts explored by the key specification
MaxRestarts == 1
\* number of evaluations (compute calls) one evaluator process runs
MaxEvals == 2

(***************************************************************************)
(* Python values.  A mapping (dict, OpenMDAO vector, _DictValues) is the   *)
(* sequence of its <<name, value>> items in iteration (insertion) order.   *)
(***************************************************************************)
Num(v) == [kind |-> "num", val |-> v]
Bool(b) == [kind |-> "bool", val |-> b]
PyStr(s) == [kind |-> "str", val |-> s]
PyPath(s) == [kind |-> "path", val |-> s]
NdArray(a) == [kind |-> "ndarray", val |-> a]
Dict(items) == [kind |-> "dict", val |-> items]

EmptyDict == Dict(<<>>)

Names(items) == [i \in 1..Len(items) |-> items[i][1]]

HasName(items, name) == \E i \in 1..Len(items) : items[i][1] = name

\* mapping[name]
Get(items, name) == items[CHOOSE i \in 1..Len(items) : items[i][1] = name][2]

\* mapping.get(name, default)
GetOr(items, name, default) == IF HasName(items, name) THEN Get(items, name) ELSE default

\* mapping[name] = value on a Python dict: replaces in place, or appends a new item
SetItem(items, name, value) ==
    IF HasName(items, name)
    THEN [i \in 1..Len(items) |-> IF items[i][1] = name THEN <<name, value>> ELSE items[i]]
    ELSE Append(items, <<name, value>>)

RECURSIVE Join(_, _)
\* sep.join(parts)
Join(parts, sep) ==
    IF Len(parts) = 0 THEN ""
    ELSE IF Len(parts) = 1 THEN parts[1]
    ELSE parts[1] \o sep \o Join(Tail(parts), sep)

(***************************************************************************)
(* numpy prints an array with more than PrintThreshold elements in         *)
(* summarised form: the first and the last EdgeItems elements around an    *)
(* ellipsis (numpy's print options threshold=1000, edgeitems=3, the        *)
(* values in force where model_baseclasses.py builds the key text; the     *)
(* caching test notes that a changed element of an hourly series does not  *)
(* give a new cache file).                                                 *)
(***************************************************************************)
PrintThreshold == 1000
EdgeItems == 3

ndarray_repr(a) ==
    LET shown(s) == Join([i \in 1..Len(s) |-> ToString(s[i])], ", ")
    IN  IF Len(a) > PrintThreshold
        THEN "array([" \o shown(SubSeq(a, 1, EdgeItems)) \o ", ..., "
                \o shown(SubSeq(a, Len(a) - EdgeItems + 1, Len(a))) \o "])"
        ELSE "array([" \o shown(a) \o "])"

\* the interpreter process the program runs in: Python's str hash salt and the
\* addresses of its objects change from one process to the next; no code of the cache
\* reads either
VARIABLE epoch

\* a component followed on its own through setup or compute, outside the cache:
\* what it is given (its options, config parameters and inputs) and what it has
\* built, returned or raised so far
VARIABLES tech, built

techVars == <<tech, built>>

NoTech == [component |-> "none"]
NotBuilt == [stage |-> "none"]

\* no such component is followed
TechIdle ==
    /\ tech = NoTech
    /\ built = NotBuilt

\* a set of strings, and an object of a class that defines no __repr__
PySet(elems) == [kind |-> "set", val |-> elems]
PyObject(cls) == [kind |-> "object", val |-> cls]

\* iteration order of a set of strings: a function of the process's hash salt
set_iteration_order(elems) ==
    IF epoch % 2 = 0 THEN elems ELSE [i \in 1..Len(elems) |-> elems[Len(elems) + 1 - i]]

\* object.__repr__: class name and address
object_repr(cls) == "<" \o cls \o " object at 0x" \o ToString(7000 + epoch) \o ">"

RECURSIVE py_repr(_)
\* repr(value); str(d) of a dict d is repr(d)
py_repr(v) ==
    CASE v.kind = "num" -> ToString(v.val)
      [] v.kind = "set" ->
            "{" \o Join([i \in 1..Len(v.val) |-> "'" \o set_iteration_order(v.val)[i] \o "'"],
                        ", ") \o "}"
      [] v.kind = "object" -> object_repr(v.val)
      [] v.kind = "bool" -> IF v.val THEN "True" ELSE "False"
      [] v.kind = "str" -> "'" \o v.val \o "'"
      [] v.kind = "path" -> "PosixPath('" \o v.val \o "')"
      [] v.kind = "ndarray" -> ndarray_repr(v.val)
      [] v.kind = "dict" ->
            "{" \o Join([i \in 1..Len(v.val) |->
                            "'" \o v.val[i][1] \o "': " \o py_repr(v.val[i][2])], ", ")
                \o "}"

py_str(v) == py_repr(v)

(***************************************************************************)
(* hashlib.md5(text).hexdigest(): a fixed function of the text.  The       *)
(* digest is kept symbolic, so two texts have the same digest exactly when *)
(* they are equal (no collisions).                                         *)
(***************************************************************************)
md5_hexdigest(text) == "md5<" \o text \o ">"

(***************************************************************************)
(* Configuration objects.  config.as_dict() (BaseConfig, in                *)
(* h2integrate/core/utilities.py) gives the mapping of every field of the  *)
(* config class in declaration order, base class first.                    *)
(***************************************************************************)
CacheDirs == {"cacheA", "cacheB"}
LossValues == {0, 10}

ConfigObjects ==
    [enable_caching : BOOLEAN, cache_dir : CacheDirs, operational_losses : LossValues]

IsDict(config) == "kind" \in DOMAIN config

as_dict(config) ==
    IF "hopp_config" \in DOMAIN config
    THEN Dict(<< <<"enable_caching", Bool(config.enable_caching)>>,
                 <<"cache_dir", PyPath(config.cache_dir)>>,
                 <<"hopp_config", config.hopp_config>>,
                 <<"cost_year", Num(config.cost_year)>>,
                 <<"electrolyzer_rating", Num(config.electrolyzer_rating)>> >>)
    ELSE Dict(<< <<"enable_caching", Bool(config.enable_caching)>>,
                 <<"cache_dir", PyPath(config.cache_dir)>>,
                 <<"operational_losses", Num(config.operational_losses)>> >>)

NoFile == [dir |-> "", name |-> ""]

\* kargs: the two calls' arguments; kfirst, kagain: the file each call returned the
\* first time and when repeated, with the process epoch of the call
VARIABLES kargs, kfirst, kagain

\* the key text built from the inputs alone
make_cache_hash_filename_inputs_only(self_config, config, inputs, discrete_inputs) ==
    LET hash_dict_str == py_str(Dict(inputs))
        config_hash == md5_hexdigest(hash_dict_str)
    IN  [dir |-> self_config.cache_dir, name |-> config_hash \o ".pkl"]

make_cache_hash_filename(self_config, config, inputs, discrete_inputs) ==
    LET config_dict == IF ~IsDict(config) THEN as_dict(config) ELSE config
        hash_dict_str == py_str(config_dict) \o py_str(Dict(inputs)) \o py_str(Dict(discrete_inputs))
        config_hash == md5_hexdigest(hash_dict_str)
    IN  [dir |-> self_config.cache_dir, name |-> config_hash \o ".pkl"]

(***************************************************************************)
(* The cache entry and its file.  dill.dump writes the pickled dict to the *)
(* file in chunks (one buffer flush each); the last chunk carries the      *)
(* pickle's STOP.  A file opened "wb" is created or truncated at open and  *)
(* each writer writes at its own offset, so a write past the end of a file *)
(* that a second writer has truncated leaves a hole of zero bytes.         *)
(***************************************************************************)
\* the entry as one flat mapping of all the names
create_cache_dict_from_outputs_flat(outs, discrete_outs) == Dict(outs \o discrete_outs)

create_cache_dict_from_outputs(outs, discrete_outs) ==
    Dict(<< <<"outputs", Dict(outs)>>, <<"discrete_outputs", Dict(discrete_outs)>> >>)

Pickle(d) == [i \in 1..Len(d.val) |-> [item |-> d.val[i], stop |-> (i = Len(d.val))]]

Hole == [item |-> <<"", EmptyDict>>, stop |-> FALSE]

\* the chunk that ends the first pickle of the content, 0 if there is none
StopAt(content) ==
    IF \E n \in 1..Len(content) : content[n].stop
    THEN CHOOSE n \in 1..Len(content) :
            content[n].stop /\ \A i \in 1..(n - 1) : ~content[i].stop
    ELSE 0

\* dill.load succeeds: the content starts with a complete, well-formed pickle
CanUnpickle(content) ==
    /\ StopAt(content) > 0
    /\ \A i \in 1..StopAt(content) : content[i] # Hole

Unpickle(content) == Dict([i \in 1..StopAt(content) |-> content[i].item])

WriteAt(content, offset, chunk) ==
    [i \in 1..(IF Len(content) > offset THEN Len(content) ELSE offset + 1) |->
        IF i = offset + 1 THEN chunk
        ELSE IF i <= Len(content) THEN content[i] ELSE Hole]

(***************************************************************************)
(* set_outputs_from_cache_dict.  The second loop assigns to                *)
(* discrete_outputs[output_name], output_name being the variable the first *)
(* loop left behind (the last output's name): unbound when there are no    *)
(* outputs, and a new key of the mapping otherwise.  A dict takes the new  *)
(* key and the iteration over discrete_outputs.items() raises at its next  *)
(* step (modelled here); an OpenMDAO _DictValues refuses the unknown name  *)
(* at the assignment.  Either way the call raises and no discrete output   *)
(* has its stored value.                                                   *)
(***************************************************************************)
RECURSIVE DiscreteLoop(_, _, _, _, _)
\* iteration i of the loop over the items that discrete_outputs had at its start
DiscreteLoop(cached, start, current, i, output_name) ==
    IF Len(current) # Len(start)
    THEN [discrete_outputs |-> current, raised |-> TRUE]
    ELSE IF i > Len(start)
    THEN [discrete_outputs |-> current, raised |-> FALSE]
    ELSE LET name == start[i][1]
             default == Get(current, name)
             value == GetOr(GetOr(cached.val, "discrete_outputs", EmptyDict).val, name, default)
         IN  DiscreteLoop(cached, start, SetItem(current, output_name, value), i + 1, output_name)

set_outputs_from_cache_dict(cached, outs, discrete_outs) ==
    LET new_outs == [i \in 1..Len(outs) |->
                        <<outs[i][1],
                          GetOr(GetOr(cached.val, "outputs", EmptyDict).val, outs[i][1], outs[i][2])>>]
    IN  IF Len(discrete_outs) = 0
        THEN [outputs |-> new_outs, discrete_outputs |-> discrete_outs, raised |-> FALSE]
        ELSE IF Len(outs) = 0
        THEN [outputs |-> new_outs, discrete_outputs |-> discrete_outs, raised |-> TRUE]
        ELSE LET r == DiscreteLoop(cached, discrete_outs, discrete_outs, 1, outs[Len(outs)][1])
             IN  [outputs |-> new_outs, discrete_outputs |-> r.discrete_outputs,
                  raised |-> r.raised]

(***************************************************************************)
(* Key computation on its own: two calls' arguments are drawn from the     *)
(* cases below, and make_cache_hash_filename is applied to each of them,   *)
(* once and again, in the same process or after a restart.                 *)
(***************************************************************************)
Reverse(s) == [i \in 1..Len(s) |-> s[Len(s) + 1 - i]]

\* an hourly series (longer than numpy prints in full), zero but for one element
LongArray(hot) == [i \in 1..(PrintThreshold + 1) |-> IF i = hot THEN 1 ELSE 0]

KeyArrays == {<<5, 6, 7>>, <<5, 6, 8>>, LongArray(0), LongArray(10)}

DefaultConfig == [enable_caching |-> TRUE, cache_dir |-> "cacheA", operational_losses |-> 0]

\* a config mapping handed over by the caller (config_dict of load_outputs)
ConfigMapping(dir) ==
    << <<"enable_caching", Bool(TRUE)>>, <<"cache_dir", PyPath(dir)>>,
       <<"operational_losses", Num(0)>> >>

KeyConfigs ==
    ConfigObjects \cup {Dict(ConfigMapping(d)) : d \in CacheDirs}
                  \cup {Dict(Reverse(ConfigMapping("cacheA")))}

KeyInputs ==
    {<< <<"wind_speed", NdArray(a)>> >> : a \in KeyArrays}
    \cup {<< <<"hub_height", NdArray(<<90>>)>>, <<"wind_speed", NdArray(<<5, 6, 7>>)>> >>,
          << <<"wind_speed", NdArray(<<5, 6, 7>>)>>, <<"hub_height", NdArray(<<90>>)>> >>}

wind_resource_data(lat, speeds) ==
    << <<"wind_resource_data",
         Dict(<< <<"site_lat", Num(lat)>>, <<"wind_speed_100m", NdArray(speeds)>> >>)>> >>

KeyDiscreteInputs ==
    {<<>>} \cup {wind_resource_data(lat, <<5, 6, 7>>) : lat \in {44, 45}}
           \cup {wind_resource_data(44, LongArray(hot)) : hot \in {0, 10}}

DefaultInputs == << <<"wind_speed", NdArray(<<5, 6, 7>>)>> >>

KeyCases ==
    {[config |-> c, inputs |-> i, discrete_inputs |-> <<>>] : c \in KeyConfigs, i \in KeyInputs}
    \cup {[config |-> DefaultConfig, inputs |-> DefaultInputs, discrete_inputs |-> d] :
            d \in KeyDiscreteInputs}

\* the component whose method is called: the config itself, or the owner of a dict
SelfConfigOf(case) == IF IsDict(case.config) THEN DefaultConfig ELSE case.config

(***************************************************************************)
(* Evaluations.  An evaluator process builds a component's config          *)
(* (CacheBaseConfig.__attrs_post_init__) and runs compute as the template  *)
(* of CacheBaseClass.compute lays it out: load_outputs, and on a miss the  *)
(* model itself followed by cache_outputs.  Steps are split where the      *)
(* method touches the file system, the places where two processes on one   *)
(* cache directory interleave.                                             *)
(*                                                                         *)
(*   config            self.config of the process's component              *)
(*   pc                "new", "ready", "loading" (entry file seen, not yet *)
(*                     read), "compute" (miss), "computed", "writing"      *)
(*                     (entry file open for writing), "done", "failed"     *)
(*                     (an exception left compute)                         *)
(*   call              the arguments of the evaluation in progress         *)
(*   outputs, discrete_outputs   the evaluation's output containers        *)
(*   loaded            what load_outputs returned: "miss", "hit", or       *)
(*                     "raised"; "none" before it returns                  *)
(*   cache_filename    the path load_outputs / cache_outputs computed      *)
(*   woff              chunks the open writer has written                  *)
(*   io                key computations and file operations of the         *)
(*                     evaluation, in order                                *)
(*   evals             evaluations the process has begun                   *)
(*   dirs, files       the file system: directories, and the content       *)
(*                     (chunks) of each file                               *)
(*   hist, seen, stored   history: each evaluation's config and arguments; *)
(*                     what load_outputs was called on; the cases for      *)
(*                     which cache_outputs has returned                    *)
(***************************************************************************)
Procs == {1, 2}

VARIABLES config, pc, call, outputs, discrete_outputs, loaded, cache_filename, woff, io,
          evals, dirs, files, hist, seen, stored, plant_life

\* plant_life[p]: self.options["plant_config"]["plant"]["plant_life"] of the component
\* process p evaluates
evalVars == <<config, pc, call, outputs, discrete_outputs, loaded, cache_filename, woff, io,
              evals, dirs, files, hist, seen, stored, plant_life>>

\* the outputs a component declares in setup, with their initial values
DeclaredOutputs == << <<"aep", NdArray(<<0>>)>>, <<"capacity_factor", NdArray(<<0>>)>> >>

DeclaredCostYear == << <<"cost_year", Num(0)>> >>

\* the config_dict a caller may hand to load_outputs and cache_outputs
CallerConfigDict == Dict(<< <<"wind_turbine_size_kw", Num(5000)>> >>)

NoArgs == [inputs |-> <<>>, discrete_inputs |-> <<>>, config_dict |-> EmptyDict,
           discrete_outputs |-> <<>>]

Args(i, d, cd, dout) ==
    [inputs |-> i, discrete_inputs |-> d, config_dict |-> cd, discrete_outputs |-> dout]

\* the expensive model (HOPP, FLORIS): a fixed function of what it is run on
run_model(cfg, args, name) ==
    [kind |-> "result",
     val |-> <<name, cfg.operational_losses, args.inputs, args.discrete_inputs>>]

\* the case an evaluation looks up and stores: what the key is computed from, and where
CaseOf(cfg, args) ==
    [cache_dir |-> cfg.cache_dir,
     config_dict |-> IF args.config_dict = EmptyDict THEN as_dict(cfg) ELSE args.config_dict,
     inputs |-> args.inputs, discrete_inputs |-> args.discrete_inputs]

EvalInit ==
    /\ config = [p \in Procs |-> DefaultConfig]
    /\ pc = [p \in Procs |-> "new"]
    /\ call = [p \in Procs |-> NoArgs]
    /\ outputs = [p \in Procs |-> <<>>]
    /\ discrete_outputs = [p \in Procs |-> <<>>]
    /\ loaded = [p \in Procs |-> "none"]
    /\ cache_filename = [p \in Procs |-> NoFile]
    /\ woff = [p \in Procs |-> 0]
    /\ io = [p \in Procs |-> <<>>]
    /\ evals = [p \in Procs |-> 0]
    /\ dirs = {}
    /\ files = <<>>
    /\ hist = [p \in Procs |-> <<>>]
    /\ seen = [p \in Procs |-> "none"]
    /\ stored = {}
    /\ plant_life = [p \in Procs |-> 30]

\* the directories after cache_dir.mkdir(parents=True, exist_ok=True) under its guard
CacheBaseConfig_post_init_mkdir_always(cfg, existing) == existing \cup {cfg.cache_dir}

CacheBaseConfig_post_init(cfg, existing) ==
    IF cfg.enable_caching /\ cfg.cache_dir \notin existing
    THEN existing \cup {cfg.cache_dir}
    ELSE existing

\* a component is set up: its config object is built from the tech config
Construct(p, configs) ==
    /\ pc[p] \in {"new", "done"}
    /\ evals[p] < MaxEvals
    /\ \E cfg \in configs :
        /\ config' = [config EXCEPT ![p] = cfg]
        /\ dirs' = CacheBaseConfig_post_init(cfg, dirs)
    /\ pc' = [pc EXCEPT ![p] = "ready"]
    /\ call' = [call EXCEPT ![p] = NoArgs]
    /\ outputs' = [outputs EXCEPT ![p] = <<>>]
    /\ discrete_outputs' = [discrete_outputs EXCEPT ![p] = <<>>]
    /\ loaded' = [loaded EXCEPT ![p] = "none"]
    /\ cache_filename' = [cache_filename EXCEPT ![p] = NoFile]
    /\ io' = [io EXCEPT ![p] = <<>>]
    /\ seen' = [seen EXCEPT ![p] = "none"]
    /\ UNCHANGED <<woff, evals, files, hist, stored, kargs, kfirst, kagain, epoch,
                   plant_life, techVars>>

\* what load_outputs finds when called: an entry stored for its case, an empty
\* cache directory, or neither
SeenAt(cfg, args) ==
    IF CaseOf(cfg, args) \in stored THEN "stored"
    ELSE IF \A f \in DOMAIN files : f.dir # cfg.cache_dir THEN "empty"
    ELSE "other"

\* load_outputs without its first two lines: the key is computed and the file looked
\* for whatever enable_caching says
LoadOutputsCheck_no_bypass(cfg, args, existing) ==
    LET config_dict == IF args.config_dict = EmptyDict THEN as_dict(cfg)
                       ELSE args.config_dict
        file == make_cache_hash_filename(cfg, config_dict, args.inputs,
                                         args.discrete_inputs)
    IN  IF file \notin existing
        THEN [pc |-> "compute", loaded |-> "miss", file |-> file,
              io |-> <<"key", "exists">>]
        ELSE [pc |-> "loading", loaded |-> "none", file |-> file,
              io |-> <<"key", "exists">>]

\* load_outputs without the exists() check: the entry file is opened whether it is
\* there or not, and open raises when it is not
LoadOutputsCheck_open_unchecked(cfg, args, existing) ==
    IF ~cfg.enable_caching
    THEN [pc |-> "compute", loaded |-> "miss", file |-> NoFile, io |-> <<>>]
    ELSE LET config_dict == IF args.config_dict = EmptyDict THEN as_dict(cfg)
                            ELSE args.config_dict
             file == make_cache_hash_filename(cfg, config_dict, args.inputs,
                                              args.discrete_inputs)
         IN  IF file \notin existing
             THEN [pc |-> "failed", loaded |-> "raised", file |-> file,
                   io |-> <<"key", "open_rb">>]
             ELSE [pc |-> "loading", loaded |-> "none", file |-> file,
                   io |-> <<"key", "exists">>]

\* the outcome of load_outputs up to its check that the entry file exists
LoadOutputsCheck(cfg, args, existing) ==
    IF ~cfg.enable_caching
    THEN [pc |-> "compute", loaded |-> "miss", file |-> NoFile, io |-> <<>>]
    ELSE LET config_dict == IF args.config_dict = EmptyDict THEN as_dict(cfg)
                            ELSE args.config_dict
             file == make_cache_hash_filename(cfg, config_dict, args.inputs,
                                              args.discrete_inputs)
         IN  IF file \notin existing
             THEN [pc |-> "compute", loaded |-> "miss", file |-> file,
                   io |-> <<"key", "exists">>]
             ELSE [pc |-> "loading", loaded |-> "none", file |-> file,
                   io |-> <<"key", "exists">>]

\* compute is called and calls load_outputs, which runs to its exists() check
load_outputs(p, calls) ==
    /\ pc[p] \in {"ready", "done"}
    /\ evals[p] < MaxEvals
    /\ \E args \in calls :
        LET r == LoadOutputsCheck(config[p], args, DOMAIN files)
        IN  /\ call' = [call EXCEPT ![p] = args]
            /\ discrete_outputs' = [discrete_outputs EXCEPT ![p] = args.discrete_outputs]
            /\ hist' = [hist EXCEPT ![p] = Append(@, [config |-> config[p], call |-> args])]
            /\ seen' = [seen EXCEPT ![p] = SeenAt(config[p], args)]
            /\ pc' = [pc EXCEPT ![p] = r.pc]
            /\ loaded' = [loaded EXCEPT ![p] = r.loaded]
            /\ cache_filename' = [cache_filename EXCEPT ![p] = r.file]
            /\ io' = [io EXCEPT ![p] = r.io]
    /\ outputs' = [outputs EXCEPT ![p] = DeclaredOutputs]
    /\ evals' = [evals EXCEPT ![p] = @ + 1]
    /\ UNCHANGED <<config, woff, dirs, files, stored, kargs, kfirst, kagain, epoch,
                   plant_life, techVars>>

\* load_outputs with the failure of dill.load caught and taken for a miss
load_outputs_read_corrupt_is_miss(p) ==
    /\ pc[p] = "loading"
    /\ io' = [io EXCEPT ![p] = Append(@, "open_rb")]
    /\ LET content == files[cache_filename[p]]
       IN  IF ~CanUnpickle(content)
           THEN /\ pc' = [pc EXCEPT ![p] = "compute"]
                /\ loaded' = [loaded EXCEPT ![p] = "miss"]
                /\ UNCHANGED <<outputs, discrete_outputs>>
           ELSE LET r == set_outputs_from_cache_dict(Unpickle(content), outputs[p],
                                                     discrete_outputs[p])
                IN  /\ outputs' = [outputs EXCEPT ![p] = r.outputs]
                    /\ discrete_outputs' = [discrete_outputs EXCEPT ![p] = r.discrete_outputs]
                    /\ pc' = [pc EXCEPT ![p] = IF r.raised THEN "failed" ELSE "done"]
                    /\ loaded' = [loaded EXCEPT ![p] = IF r.raised THEN "raised" ELSE "hit"]
    /\ UNCHANGED <<config, call, cache_filename, woff, evals, dirs, files, hist, seen, stored,
                   kargs, kfirst, kagain, epoch,
                   plant_life, techVars>>

\* load_outputs that runs the model again after it has set the outputs from the entry
load_outputs_read_then_recompute(p) ==
    /\ pc[p] = "loading"
    /\ io' = [io EXCEPT ![p] = Append(@, "open_rb")]
    /\ LET r == set_outputs_from_cache_dict(Unpickle(files[cache_filename[p]]), outputs[p],
                                            discrete_outputs[p])
       IN  /\ outputs' = [outputs EXCEPT ![p] = r.outputs]
           /\ discrete_outputs' = [discrete_outputs EXCEPT ![p] = r.discrete_outputs]
           /\ pc' = [pc EXCEPT ![p] = "compute"]
           /\ loaded' = [loaded EXCEPT ![p] = "hit"]
    /\ UNCHANGED <<config, call, cache_filename, woff, evals, dirs, files, hist, seen, stored,
                   kargs, kfirst, kagain, epoch,
                   plant_life, techVars>>

\* load_outputs opens the entry file, loads it and sets the outputs from it
load_outputs_read(p) ==
    /\ pc[p] = "loading"
    /\ io' = [io EXCEPT ![p] = Append(@, "open_rb")]
    /\ LET content == files[cache_filename[p]]
       IN  IF ~CanUnpickle(content)
           THEN /\ pc' = [pc EXCEPT ![p] = "failed"]
                /\ loaded' = [loaded EXCEPT ![p] = "raised"]
                /\ UNCHANGED <<outputs, discrete_outputs>>
           ELSE LET r == set_outputs_from_cache_dict(Unpickle(content), outputs[p],
                                                     discrete_outputs[p])
                IN  /\ outputs' = [outputs EXCEPT ![p] = r.outputs]
                    /\ discrete_outputs' = [discrete_outputs EXCEPT ![p] = r.discrete_outputs]
                    /\ pc' = [pc EXCEPT ![p] = IF r.raised THEN "failed" ELSE "done"]
                    /\ loaded' = [loaded EXCEPT ![p] = IF r.raised THEN "raised" ELSE "hit"]
    /\ UNCHANGED <<config, call, cache_filename, woff, evals, dirs, files, hist, seen, stored,
                   kargs, kfirst, kagain, epoch,
                   plant_life, techVars>>

\* on a miss compute runs the model and sets every output
RunModel(p) ==
    /\ pc[p] = "compute"
    /\ outputs' = [outputs EXCEPT ![p] =
                    [i \in 1..Len(@) |-> <<@[i][1], run_model(config[p], call[p], @[i][1])>>]]
    /\ discrete_outputs' = [discrete_outputs EXCEPT ![p] =
                    [i \in 1..Len(@) |-> <<@[i][1], run_model(config[p], call[p], @[i][1])>>]]
    /\ pc' = [pc EXCEPT ![p] = "computed"]
    /\ UNCHANGED <<config, call, loaded, cache_filename, woff, io, evals, dirs, files, hist,
                   seen, stored, kargs, kfirst, kagain, epoch,
                   plant_life, techVars>>

\* the outcome of cache_outputs up to cache_path.open("wb")
CacheOutputsOpen(cfg, args, existing_dirs) ==
    IF ~cfg.enable_caching
    THEN [pc |-> "done", file |-> NoFile, io |-> <<>>]
    ELSE LET config_dict == IF args.config_dict = EmptyDict THEN as_dict(cfg)
                            ELSE args.config_dict
             file == make_cache_hash_filename(cfg, config_dict, args.inputs,
                                              args.discrete_inputs)
         IN  IF file.dir \notin existing_dirs
             THEN [pc |-> "failed", file |-> file, io |-> <<"key", "open_wb">>]
             ELSE [pc |-> "writing", file |-> file, io |-> <<"key", "open_wb">>]

\* cache_outputs that clears the cache directory of older entries before it writes
cache_outputs_pruning(p) ==
    /\ pc[p] = "computed"
    /\ LET r == CacheOutputsOpen(config[p], call[p], dirs)
       IN  /\ pc' = [pc EXCEPT ![p] = r.pc]
           /\ io' = [io EXCEPT ![p] = @ \o r.io]
           /\ cache_filename' = [cache_filename EXCEPT ![p] =
                                    IF r.file = NoFile THEN @ ELSE r.file]
           /\ files' = IF r.pc = "writing"
                       THEN [f \in {g \in DOMAIN files : g.dir # r.file.dir} \cup {r.file} |->
                                IF f = r.file THEN <<>> ELSE files[f]]
                       ELSE files
    /\ woff' = [woff EXCEPT ![p] = 0]
    /\ UNCHANGED <<config, call, outputs, discrete_outputs, loaded, evals, dirs, hist, seen,
                   stored, kargs, kfirst, kagain, epoch,
                   plant_life, techVars>>

\* compute calls cache_outputs, which runs until the entry file is open (and empty)
cache_outputs(p) ==
    /\ pc[p] = "computed"
    /\ LET r == CacheOutputsOpen(config[p], call[p], dirs)
       IN  /\ pc' = [pc EXCEPT ![p] = r.pc]
           /\ io' = [io EXCEPT ![p] = @ \o r.io]
           /\ cache_filename' = [cache_filename EXCEPT ![p] =
                                    IF r.file = NoFile THEN @ ELSE r.file]
           /\ files' = IF r.pc = "writing"
                       THEN [f \in DOMAIN files \cup {r.file} |->
                                IF f = r.file THEN <<>> ELSE files[f]]
                       ELSE files
    /\ woff' = [woff EXCEPT ![p] = 0]
    /\ UNCHANGED <<config, call, outputs, discrete_outputs, loaded, evals, dirs, hist, seen,
                   stored, kargs, kfirst, kagain, epoch,
                   plant_life, techVars>>

\* dill.dump writes the next chunk of the entry; after the last one the file is closed
\* and cache_outputs returns
dump_write(p) ==
    /\ pc[p] = "writing"
    /\ LET pickled == Pickle(create_cache_dict_from_outputs(outputs[p], discrete_outputs[p]))
           last == (woff[p] + 1 = Len(pickled))
       IN  /\ files' = [files EXCEPT ![cache_filename[p]] =
                            WriteAt(@, woff[p], pickled[woff[p] + 1])]
           /\ woff' = [woff EXCEPT ![p] = @ + 1]
           /\ pc' = [pc EXCEPT ![p] = IF last THEN "done" ELSE "writing"]
           /\ stored' = IF last THEN stored \cup {CaseOf(config[p], call[p])} ELSE stored
    /\ io' = [io EXCEPT ![p] = Append(@, "write")]
    /\ UNCHANGED <<config, call, outputs, discrete_outputs, loaded, cache_filename, evals,
                   dirs, hist, seen, kargs, kfirst, kagain, epoch,
                   plant_life, techVars>>

NoCall == [file |-> NoFile, epoch |-> 0]

keyVars == <<kargs, kfirst, kagain, epoch>>

KeyInit ==
    /\ kargs \in [1..2 -> KeyCases]
    /\ kfirst = [i \in 1..2 |-> NoCall]
    /\ kagain = [i \in 1..2 |-> NoCall]
    /\ epoch = 0

\* the call with the cache's own settings deleted from the caller's config mapping
\* itself instead of from a copy
CallMakeCacheHashFilename_pops_in_place(i) ==
    LET file == make_cache_hash_filename(SelfConfigOf(kargs[i]), kargs[i].config,
                                         kargs[i].inputs, kargs[i].discrete_inputs)
        Kept(item) == item[1] \notin {"enable_caching", "cache_dir"}
    IN  /\ kagain[i] = NoCall
        /\ IF kfirst[i] = NoCall
           THEN /\ kfirst' = [kfirst EXCEPT ![i] = [file |-> file, epoch |-> epoch]]
                /\ UNCHANGED kagain
           ELSE /\ kagain' = [kagain EXCEPT ![i] = [file |-> file, epoch |-> epoch]]
                /\ UNCHANGED kfirst
        /\ kargs' = IF IsDict(kargs[i].config)
                    THEN [kargs EXCEPT ![i].config = Dict(SelectSeq(@.val, Kept))]
                    ELSE kargs
        /\ UNCHANGED epoch
        /\ UNCHANGED <<evalVars, techVars>>

CallMakeCacheHashFilename(i) ==
    LET file == make_cache_hash_filename(SelfConfigOf(kargs[i]), kargs[i].config,
                                         kargs[i].inputs, kargs[i].discrete_inputs)
    IN  /\ kagain[i] = NoCall
        /\ IF kfirst[i] = NoCall
           THEN /\ kfirst' = [kfirst EXCEPT ![i] = [file |-> file, epoch |-> epoch]]
                /\ UNCHANGED kagain
           ELSE /\ kagain' = [kagain EXCEPT ![i] = [file |-> file, epoch |-> epoch]]
                /\ UNCHANGED kfirst
        /\ UNCHANGED <<kargs, epoch>>
        /\ UNCHANGED <<evalVars, techVars>>

\* the interpreter exits and a new one starts: object addresses and hash salt change
ProcessRestart ==
    /\ epoch < MaxRestarts
    /\ epoch' = epoch + 1
    /\ UNCHANGED <<kargs, kfirst, kagain>>
    /\ UNCHANGED <<evalVars, techVars>>

KeyNext ==
    \/ \E i \in 1..2 : CallMakeCacheHashFilename(i)
    \/ ProcessRestart

vars == <<evalVars, keyVars, techVars>>

InitKey == KeyInit /\ EvalInit /\ TechIdle

\* the key specification: no evaluation runs
SpecKey == InitKey /\ [][KeyNext]_vars

(***************************************************************************)
(* Evaluations one after the other: one evaluator process, fresh cache     *)
(* directory, any number of components set up and evaluated in turn.       *)
(***************************************************************************)
SeqProcs == {1}

SeqConfigs ==
    [enable_caching : BOOLEAN, cache_dir : {"cacheA"}, operational_losses : LossValues]

SeqCalls ==
    {Args(<< <<"wind_speed", NdArray(a)>> >>, wind_resource_data(44, <<5, 6, 7>>),
          EmptyDict, <<>>) : a \in KeyArrays}
    \cup {Args(DefaultInputs, wind_resource_data(lat, <<5, 6, 7>>), cd, dout) :
            lat \in {44, 45}, cd \in {EmptyDict, CallerConfigDict},
            dout \in {<<>>, DeclaredCostYear}}

KeyIdle ==
    /\ kargs = [i \in 1..2 |-> [config |-> DefaultConfig, inputs |-> DefaultInputs,
                                 discrete_inputs |-> <<>>]]
    /\ kfirst = [i \in 1..2 |-> NoCall]
    /\ kagain = [i \in 1..2 |-> NoCall]
    /\ epoch = 0

Next ==
    \E p \in SeqProcs :
        \/ Construct(p, SeqConfigs)
        \/ load_outputs(p, SeqCalls)
        \/ load_outputs_read(p)
        \/ RunModel(p)
        \/ cache_outputs(p)
        \/ dump_write(p)

Init == EvalInit /\ KeyIdle /\ TechIdle

Spec == Init /\ [][Next]_vars

(***************************************************************************)
(* Two evaluator processes sharing one cache directory, their steps        *)
(* interleaved in any order.                                               *)
(***************************************************************************)
ConcConfigs == {DefaultConfig}

ConcCalls ==
    {Args(<< <<"wind_speed", NdArray(a)>> >>, <<>>, EmptyDict, <<>>) :
        a \in {<<5, 6, 7>>, <<5, 6, 8>>}}

NextConc ==
    \E p \in Procs :
        \/ Construct(p, ConcConfigs)
        \/ load_outputs(p, ConcCalls)
        \/ load_outputs_read(p)
        \/ RunModel(p)
        \/ cache_outputs(p)
        \/ dump_write(p)

SpecConc == Init /\ [][NextConc]_vars

(***************************************************************************)
(* Key computation on values without a deterministic text: a set of        *)
(* strings, an object printed with its address.                            *)
(***************************************************************************)
resource_handle(v) == << <<"resource_handle", v>> >>

OpaqueCases ==
    {[config |-> DefaultConfig, inputs |-> DefaultInputs, discrete_inputs |-> d] :
        d \in {<<>>, resource_handle(PyObject("WindResource")),
               resource_handle(PySet(<<"wind", "solar">>))}}
    \cup {[config |-> Dict(Append(ConfigMapping("cacheA"), <<"technologies", v>>)),
           inputs |-> DefaultInputs, discrete_inputs |-> <<>>] :
            v \in {PySet(<<"wind", "solar">>), PyStr("wind")}}

InitOpaque ==
    /\ kargs \in [1..2 -> OpaqueCases]
    /\ kfirst = [i \in 1..2 |-> NoCall]
    /\ kagain = [i \in 1..2 |-> NoCall]
    /\ epoch = 0
    /\ EvalInit
    /\ TechIdle

SpecOpaque == InitOpaque /\ [][KeyNext]_vars

(***************************************************************************)
(* Evaluations with faults: one evaluator process, and around it the       *)
(* events the cache has no hand in.  The cache directory is removed        *)
(* (shutil.rmtree, as the caching tests do) while no file of it is open;   *)
(* a complete entry file is cut short on disk; the model run raises; a     *)
(* write of dill.dump fails (disk full, I/O error).  An exception that     *)
(* leaves compute ends the evaluation at "failed": neither the cache       *)
(* methods nor compute catch it.                                           *)
(***************************************************************************)
FaultConfigs == [enable_caching : BOOLEAN, cache_dir : {"cacheA"}, operational_losses : {0}]

FaultCalls ==
    {Args(DefaultInputs, wind_resource_data(lat, <<5, 6, 7>>), EmptyDict, <<>>) :
        lat \in {44, 45}}

\* shutil.rmtree(cache_dir)
RemoveCacheDir ==
    /\ \A p \in Procs : pc[p] \notin {"loading", "writing"}
    /\ \E d \in dirs :
        /\ dirs' = dirs \ {d}
        /\ files' = [f \in {g \in DOMAIN files : g.dir # d} |-> files[f]]
        /\ stored' = {c \in stored : c.cache_dir # d}
    /\ UNCHANGED <<config, pc, call, outputs, discrete_outputs, loaded, cache_filename, woff,
                   io, evals, hist, seen, kargs, kfirst, kagain, epoch,
                   plant_life, techVars>>

\* a complete entry file that nobody has open loses its end
CorruptEntry ==
    /\ \A p \in Procs : pc[p] \notin {"loading", "writing"}
    /\ \E f \in DOMAIN files :
        /\ CanUnpickle(files[f])
        /\ \E n \in 0..(Len(files[f]) - 1) :
            files' = [files EXCEPT ![f] = SubSeq(@, 1, n)]
    /\ UNCHANGED <<config, pc, call, outputs, discrete_outputs, loaded, cache_filename, woff,
                   io, evals, dirs, hist, seen, stored, kargs, kfirst, kagain, epoch,
                   plant_life, techVars>>

\* the exception of the model run is caught and the outputs set so far are stored
ModelRaises_then_caches(p) ==
    /\ pc[p] = "compute"
    /\ pc' = [pc EXCEPT ![p] = "computed"]
    /\ io' = [io EXCEPT ![p] = Append(@, "model_error")]
    /\ UNCHANGED <<config, call, outputs, discrete_outputs, loaded, cache_filename, woff,
                   evals, dirs, files, hist, seen, stored, kargs, kfirst, kagain, epoch,
                   plant_life, techVars>>

\* the model run raises: the exception leaves compute before cache_outputs
ModelRaises(p) ==
    /\ pc[p] = "compute"
    /\ pc' = [pc EXCEPT ![p] = "failed"]
    /\ io' = [io EXCEPT ![p] = Append(@, "model_error")]
    /\ UNCHANGED <<config, call, outputs, discrete_outputs, loaded, cache_filename, woff,
                   evals, dirs, files, hist, seen, stored, kargs, kfirst, kagain, epoch,
                   plant_life, techVars>>

\* the failed store is caught and tried again
dump_fails_retried(p) ==
    /\ pc[p] = "writing"
    /\ pc' = [pc EXCEPT ![p] = "computed"]
    /\ io' = [io EXCEPT ![p] = Append(@, "write_error")]
    /\ UNCHANGED <<config, call, outputs, discrete_outputs, loaded, cache_filename, woff,
                   evals, dirs, files, hist, seen, stored, kargs, kfirst, kagain, epoch,
                   plant_life, techVars>>

\* a write of dill.dump raises: the file is closed as it is and the exception leaves
\* cache_outputs and compute
dump_fails(p) ==
    /\ pc[p] = "writing"
    /\ pc' = [pc EXCEPT ![p] = "failed"]
    /\ io' = [io EXCEPT ![p] = Append(@, "write_error")]
    /\ UNCHANGED <<config, call, outputs, discrete_outputs, loaded, cache_filename, woff,
                   evals, dirs, files, hist, seen, stored, kargs, kfirst, kagain, epoch,
                   plant_life, techVars>>

NextFault ==
    \/ \E p \in SeqProcs :
        \/ Construct(p, FaultConfigs)
        \/ load_outputs(p, FaultCalls)
        \/ load_outputs_read(p)
        \/ RunModel(p)
        \/ ModelRaises(p)
        \/ cache_outputs(p)
        \/ dump_write(p)
        \/ dump_fails(p)
    \/ RemoveCacheDir
    \/ CorruptEntry

SpecFault == Init /\ [][NextFault]_vars

BothKeysComputed == kfirst[1] # NoCall /\ kfirst[2] # NoCall

\* the mapping that is hashed for a call's config argument
ConfigDictOf(case) == IF IsDict(case.config) THEN case.config ELSE as_dict(case.config)

RECURSIVE SameShape(_, _)
\* the same names in the same order, holding values of the same kind and length
SameShape(m1, m2) ==
    /\ Names(m1) = Names(m2)
    /\ \A i \in 1..Len(m1) :
        LET a == m1[i][2]
            b == m2[i][2]
        IN  /\ a.kind = b.kind
            /\ a.kind = "ndarray" => Len(a.val) = Len(b.val)
            /\ a.kind = "dict" => SameShape(a.val, b.val)

\* the same name-to-value pairs, whatever the order of insertion
SameItems(m1, m2) == {m1[i] : i \in 1..Len(m1)} = {m2[i] : i \in 1..Len(m2)}

\* only the values under enable_caching and cache_dir may differ
DiffersOnlyInCacheSettings(d1, d2) ==
    /\ Names(d1) = Names(d2)
    /\ d1 # d2
    /\ \A i \in 1..Len(d1) : d1[i][1] \notin {"enable_caching", "cache_dir"} => d1[i] = d2[i]

(***************************************************************************)
(* C3 (as claimed).  Two calls with the same config whose inputs or        *)
(* discrete inputs have the same names and shapes and differ in at least   *)
(* one numeric value get different file names.                             *)
(***************************************************************************)
C3_KeySensitiveToEveryValue ==
    ( /\ BothKeysComputed
      /\ ConfigDictOf(kargs[1]) = ConfigDictOf(kargs[2])
      /\ SameShape(kargs[1].inputs, kargs[2].inputs)
      /\ SameShape(kargs[1].discrete_inputs, kargs[2].discrete_inputs)
      /\ \/ kargs[1].inputs # kargs[2].inputs
         \/ kargs[1].discrete_inputs # kargs[2].discrete_inputs )
    => kfirst[1].file.name # kfirst[2].file.name

(***************************************************************************)
(* C4 (as claimed).  Determinism: a call repeated with the same arguments, *)
(* in the same process or after a restart, returns the file the first call *)
(* returned, and two calls with equal arguments return the same file.      *)
(* (It holds over KeyCases, whose values all have a text that is a         *)
(* function of the value; it fails over OpaqueCases.)                      *)
(***************************************************************************)
C4_KeyDeterministic ==
    /\ \A i \in 1..2 : kagain[i] # NoCall => kagain[i].file = kfirst[i].file
    /\ \A i, j \in 1..2 :
        (kfirst[i] # NoCall /\ kfirst[j] # NoCall /\ kargs[i] = kargs[j])
        => kfirst[i].file = kfirst[j].file

(***************************************************************************)
(* C5 (as claimed).  Two calls whose config, inputs and discrete inputs    *)
(* hold the same name-to-value pairs, in whatever order, get the same file *)
(* name.                                                                   *)
(***************************************************************************)
C5_KeyIgnoresInsertionOrder ==
    ( /\ BothKeysComputed
      /\ SameItems(ConfigDictOf(kargs[1]).val, ConfigDictOf(kargs[2]).val)
      /\ SameItems(kargs[1].inputs, kargs[2].inputs)
      /\ SameItems(kargs[1].discrete_inputs, kargs[2].discrete_inputs) )
    => kfirst[1].file.name = kfirst[2].file.name

(***************************************************************************)
(* C6 (as claimed).  Two calls given config mappings that differ only in   *)
(* the values of enable_caching and cache_dir, with the same inputs and    *)
(* discrete inputs, get the same file name.                                *)
(***************************************************************************)
C6_KeyIgnoresCacheSettings ==
    ( /\ BothKeysComputed
      /\ IsDict(kargs[1].config) /\ IsDict(kargs[2].config)
      /\ DiffersOnlyInCacheSettings(kargs[1].config.val, kargs[2].config.val)
      /\ kargs[1].inputs = kargs[2].inputs
      /\ kargs[1].discrete_inputs = kargs[2].discrete_inputs )
    => kfirst[1].file.name = kfirst[2].file.name

(***************************************************************************)
(* Claims about evaluations.                                               *)
(***************************************************************************)
FilesIn(dir) == {f \in DOMAIN files : f.dir = dir}

\* the file an evaluation's key names
FileOf(e) ==
    make_cache_hash_filename(e.config, CaseOf(e.config, e.call).config_dict,
                             e.call.inputs, e.call.discrete_inputs)

(***************************************************************************)
(* C1 (as claimed).  With caching enabled, load_outputs called on an empty *)
(* cache directory returns False, and load_outputs called for a case for   *)
(* which cache_outputs has returned returns True.                          *)
(***************************************************************************)
C1_MissThenHit ==
    \A p \in Procs :
        (config[p].enable_caching /\ loaded[p] # "none")
        => /\ seen[p] = "empty" => loaded[p] = "miss"
           /\ seen[p] = "stored" => loaded[p] = "hit"

(***************************************************************************)
(* C2 (as claimed).  Once load_outputs has read a stored entry, every      *)
(* declared output and every declared discrete output that the entry       *)
(* holds has the entry's value under its own name.                         *)
(***************************************************************************)
C2_RoundTrip ==
    \A p \in Procs :
        (loaded[p] \in {"hit", "raised"} /\ CanUnpickle(files[cache_filename[p]]))
        => LET entry == Unpickle(files[cache_filename[p]]).val
               outs == Get(entry, "outputs").val
               discrete_outs == Get(entry, "discrete_outputs").val
           IN  /\ \A i \in 1..Len(DeclaredOutputs) :
                    LET name == DeclaredOutputs[i][1]
                    IN  HasName(outs, name) =>
                            /\ HasName(outputs[p], name)
                            /\ Get(outputs[p], name) = Get(outs, name)
               /\ \A i \in 1..Len(call[p].discrete_outputs) :
                    LET name == call[p].discrete_outputs[i][1]
                    IN  HasName(discrete_outs, name) =>
                            /\ HasName(discrete_outputs[p], name)
                            /\ Get(discrete_outputs[p], name) = Get(discrete_outs, name)

RECURSIVE ArraysAgree(_, _)
\* two mappings of the same shape hold the same arrays
ArraysAgree(m1, m2) ==
    \A i \in 1..Len(m1) :
        /\ m1[i][2].kind = "ndarray" => m1[i][2] = m2[i][2]
        /\ m1[i][2].kind = "dict" => ArraysAgree(m1[i][2].val, m2[i][2].val)

\* the same names, and a different value (not inside an array) under at least one
ScalarValueChanged(m1, m2) == SameShape(m1, m2) /\ m1 # m2 /\ ArraysAgree(m1, m2)

\* the second evaluation's hashed configuration, or its discrete input, differs from
\* the first's in a field value, all else being the same
OneValueChanged(e1, e2) ==
    /\ e1.call.inputs = e2.call.inputs
    /\ e1.config.cache_dir = e2.config.cache_dir
    /\ \/ /\ ScalarValueChanged(CaseOf(e1.config, e1.call).config_dict.val,
                                CaseOf(e2.config, e2.call).config_dict.val)
          /\ e1.call.discrete_inputs = e2.call.discrete_inputs
       \/ /\ CaseOf(e1.config, e1.call).config_dict = CaseOf(e2.config, e2.call).config_dict
          /\ ScalarValueChanged(e1.call.discrete_inputs, e2.call.discrete_inputs)

Acts(p) == pc'[p] # pc[p] \/ woff'[p] # woff[p]

(***************************************************************************)
(* C8.  Disabled bypass: no step of a component whose config has           *)
(* enable_caching False (its construction, load_outputs, the model run,    *)
(* cache_outputs) creates a directory or creates or changes a file.        *)
(***************************************************************************)
C8_DisabledBypass ==
    [][\A p \in Procs :
        (Acts(p) /\ ~config'[p].enable_caching) => (dirs' = dirs /\ files' = files)]_vars

\* two evaluations have run to completion with caching disabled, and nothing exists
C8_Witness ==
    \E p \in Procs :
        /\ evals[p] = 2 /\ pc[p] = "done"
        /\ \A i \in 1..2 : ~hist[p][i].config.enable_caching
        /\ dirs = {} /\ DOMAIN files = {}

(***************************************************************************)
(* C9.  With enable_caching False load_outputs returns False having        *)
(* computed no key and touched no file, and leaves the outputs as they     *)
(* were; the same holds through the rest of the evaluation.                *)
(***************************************************************************)
C9_DisabledLoadIsMiss ==
    \A p \in Procs :
        (pc[p] \in {"loading", "compute", "computed", "writing", "done", "failed"}
            /\ ~config[p].enable_caching)
        => /\ loaded[p] = "miss"
           /\ io[p] = <<>>
           /\ cache_filename[p] = NoFile
           /\ pc[p] = "compute" =>
                (outputs[p] = DeclaredOutputs /\ discrete_outputs[p] = call[p].discrete_outputs)

\* load_outputs has returned False with caching disabled while the entry file that
\* its config_dict, inputs and discrete inputs name exists, complete
C9_Witness ==
    \E p \in Procs :
        /\ pc[p] = "compute" /\ ~config[p].enable_caching
        /\ LET file == FileOf([config |-> config[p], call |-> call[p]])
           IN  file \in DOMAIN files /\ CanUnpickle(files[file])

(***************************************************************************)
(* C10 (as claimed).  A process that loads an entry while another process  *)
(* writes it never reads a partially written file: dill.load never fails   *)
(* on the file load_outputs found to exist.  (No discrete outputs are      *)
(* declared here, so nothing else in load_outputs can raise.)              *)
(***************************************************************************)
C10_ReaderNeverSeesPartialEntry ==
    \A p \in Procs : call[p].discrete_outputs = <<>> => loaded[p] # "raised"

\* the entry a process has computed and hands to cache_outputs
ResultOf(p) == create_cache_dict_from_outputs(outputs[p], discrete_outputs[p])

\* both processes missed on the same key and are in, or through, their evaluations
MissedTogether(p, q) ==
    /\ p # q
    /\ loaded[p] = "miss" /\ loaded[q] = "miss"
    /\ pc[p] \in {"compute", "computed", "writing", "done"}
    /\ pc[q] \in {"compute", "computed", "writing", "done"}
    /\ cache_filename[p] # NoFile /\ cache_filename[p] = cache_filename[q]

(***************************************************************************)
(* C11 (as claimed).  When two processes have missed on the same key and   *)
(* both compute and store, the entry file is at every point absent or      *)
(* holds the complete result of one of the two writers.                    *)
(***************************************************************************)
C11_ConcurrentWritesAtomic ==
    \A p, q \in Procs :
        MissedTogether(p, q)
        => \/ cache_filename[p] \notin DOMAIN files
           \/ \E w \in {p, q} :
                /\ pc[w] \in {"writing", "done"}
                /\ files[cache_filename[p]] = Pickle(ResultOf(w))

\* the file holds a complete entry and no writer has it open
EntryComplete(f) ==
    /\ f \in DOMAIN files
    /\ CanUnpickle(files[f])
    /\ \A p \in Procs : ~(pc[p] = "writing" /\ cache_filename[p] = f)

(***************************************************************************)
(* C12 (as claimed).  Once an entry file has been completely written no    *)
(* step of any evaluation writes it again or changes its contents.         *)
(***************************************************************************)
C12_EntryImmutable ==
    [][\A f \in DOMAIN files :
        EntryComplete(f) => (f \in DOMAIN files' /\ files'[f] = files[f])]_vars

\* the evaluation of p has performed the operation
InIo(p, op) == \E i \in 1..Len(io[p]) : io[p][i] = op

(***************************************************************************)
(* C13.  When load_outputs reads an entry file that cannot be              *)
(* deserialized, it raises: the evaluation ends with the error, the        *)
(* outputs untouched; load_outputs does not return False and the model is  *)
(* not run in place of the load.                                           *)
(***************************************************************************)
C13_CorruptEntryIsFatal ==
    [][\A p \in Procs :
        ( /\ pc[p] = "loading" /\ pc'[p] # "loading"
          /\ ~CanUnpickle(files[cache_filename[p]]) )
        => /\ pc'[p] = "failed"
           /\ loaded'[p] = "raised"
           /\ outputs'[p] = outputs[p]
           /\ files' = files]_vars

\* an evaluation has ended in the error of reading a cut entry file
C13_Witness ==
    \E p \in Procs :
        /\ pc[p] = "failed" /\ loaded[p] = "raised"
        /\ io[p] = <<"key", "exists", "open_rb">>
        /\ cache_filename[p] \in DOMAIN files
        /\ ~CanUnpickle(files[cache_filename[p]])

(***************************************************************************)
(* C14.  load_outputs called with caching enabled while the cache          *)
(* directory does not exist returns False: a miss, no error.               *)
(***************************************************************************)
C14_MissingDirIsMiss ==
    [][\A p \in Procs :
        ( /\ evals'[p] = evals[p] + 1
          /\ config[p].enable_caching
          /\ config[p].cache_dir \notin dirs )
        => /\ loaded'[p] = "miss"
           /\ pc'[p] = "compute"
           /\ dirs' = dirs /\ files' = files]_vars

\* load_outputs has returned False with caching enabled and no cache directory
C14_Witness ==
    \E p \in Procs :
        /\ pc[p] = "compute" /\ loaded[p] = "miss"
        /\ config[p].enable_caching
        /\ config[p].cache_dir \notin dirs

(***************************************************************************)
(* C15 (as claimed).  cache_outputs called with caching enabled while the  *)
(* cache directory does not exist creates the directory and opens the      *)
(* entry file in it for writing.                                           *)
(***************************************************************************)
C15_StoreCreatesMissingDir ==
    [][\A p \in Procs :
        ( /\ pc[p] = "computed" /\ pc'[p] # "computed"
          /\ config[p].enable_caching
          /\ config[p].cache_dir \notin dirs )
        => /\ config[p].cache_dir \in dirs'
           /\ pc'[p] = "writing"
           /\ cache_filename'[p] \in DOMAIN files']_vars

(***************************************************************************)
(* C16.  A write that fails in cache_outputs ends the evaluation with the  *)
(* error, and an evaluation that has ended with an error (of the load, of  *)
(* the model or of the store) does nothing more: no retry of the store, no *)
(* recomputation, no further file operation.                               *)
(***************************************************************************)
C16_ErrorsPropagate ==
    [][\A p \in Procs :
        /\ ( /\ io'[p] # io[p] /\ Len(io'[p]) > 0
             /\ io'[p][Len(io'[p])] = "write_error" )
           => pc'[p] = "failed"
        /\ pc[p] = "failed"
           => /\ pc'[p] = "failed"
              /\ io'[p] = io[p]
              /\ outputs'[p] = outputs[p]
              /\ loaded'[p] = loaded[p]
              /\ evals'[p] = evals[p]]_vars

\* an evaluation has ended in the error of a failed write, the entry file left partial
C16_Witness ==
    \E p \in Procs :
        /\ pc[p] = "failed"
        /\ io[p] = <<"key", "exists", "key", "open_wb", "write", "write_error">>
        /\ ~CanUnpickle(files[cache_filename[p]])

(***************************************************************************)
(* C19.  When the model run of an evaluation raises, the evaluation ends   *)
(* there: cache_outputs is not reached (the evaluation opens and writes no *)
(* file) and, with caching enabled, no entry file exists for its key.      *)
(***************************************************************************)
C19_NoStoreAfterModelError ==
    \A p \in Procs :
        InIo(p, "model_error")
        => /\ pc[p] = "failed"
           /\ ~InIo(p, "open_wb") /\ ~InIo(p, "write")
           /\ config[p].enable_caching => cache_filename[p] \notin DOMAIN files

\* the model run has raised in an evaluation that missed with caching enabled
C19_Witness ==
    \E p \in Procs :
        /\ pc[p] = "failed" /\ InIo(p, "model_error")
        /\ config[p].enable_caching /\ loaded[p] = "miss"
        /\ config[p].cache_dir \in dirs

RECURSIVE HasOpaque(_)
\* the mapping holds, at some depth, a value whose text is not a function of the value
HasOpaque(items) ==
    \E i \in 1..Len(items) :
        \/ items[i][2].kind \in {"set", "object"}
        \/ items[i][2].kind = "dict" /\ HasOpaque(items[i][2].val)

(***************************************************************************)
(* C17 (as claimed).  A call of make_cache_hash_filename whose config,     *)
(* inputs or discrete inputs hold a set or an object printed with its      *)
(* address fails: it returns no file name.                                 *)
(***************************************************************************)
C17_UnserializableRejected ==
    \A i \in 1..2 :
        ( \/ HasOpaque(ConfigDictOf(kargs[i]).val)
          \/ HasOpaque(kargs[i].inputs)
          \/ HasOpaque(kargs[i].discrete_inputs) )
        => kfirst[i].file = NoFile /\ kagain[i].file = NoFile

\* process p moves from one position of compute to another
Moves(p, from, to) == pc[p] \in from /\ pc'[p] \in to

(***************************************************************************)
(* C18.  Each evaluation called without discrete outputs (as               *)
(* HOPPComponent and the FLORIS model call the cache) goes, with caching   *)
(* enabled, from the check to a hit (outputs loaded, end: the model is not *)
(* run, no file written) or to a miss, the model run, one store and the    *)
(* end; with caching disabled, to the model run and the end, with no check *)
(* and no store.                                                           *)
(***************************************************************************)
C18_EvaluationStateMachine ==
    [][\A p \in SeqProcs :
        (pc'[p] # pc[p] /\ call'[p].discrete_outputs = <<>>)
        => LET enabled == config'[p].enable_caching
           IN  /\ \/ Moves(p, {"new", "done"}, {"ready"})
                  \/ /\ Moves(p, {"ready", "done"}, {"loading", "compute"})
                     /\ io'[p] = IF enabled THEN <<"key", "exists">> ELSE <<>>
                     /\ ~enabled => pc'[p] = "compute"
                     /\ files' = files
                  \/ /\ Moves(p, {"loading"}, {"done"})
                     /\ loaded'[p] = "hit"
                     /\ io'[p] = <<"key", "exists", "open_rb">>
                     /\ files' = files
                  \/ /\ Moves(p, {"compute"}, {"computed"})
                     /\ loaded[p] = "miss"
                     /\ files' = files
                  \/ /\ Moves(p, {"computed"}, {"writing"})
                     /\ enabled
                  \/ /\ Moves(p, {"computed"}, {"done"})
                     /\ ~enabled /\ io'[p] = <<>> /\ files' = files
                  \/ /\ Moves(p, {"writing"}, {"done"})
                     /\ io'[p] = <<"key", "exists", "key", "open_wb", "write", "write">>
                     /\ files'[cache_filename[p]] = Pickle(ResultOf(p))]_vars

\* a second evaluation has ended in a hit
C18_Witness ==
    \E p \in SeqProcs :
        /\ evals[p] = 2 /\ pc[p] = "done" /\ loaded[p] = "hit"
        /\ call[p].discrete_outputs = <<>>
        /\ config[p].enable_caching

(***************************************************************************)
(* C20.  make_cache_hash_filename is pure: a call leaves its config,       *)
(* inputs and discrete_inputs arguments and self.config as they were, and  *)
(* creates, changes and removes no directory and no file.                  *)
(***************************************************************************)
C20_KeyComputationPure ==
    [][\A i \in 1..2 :
        (kfirst'[i] # kfirst[i] \/ kagain'[i] # kagain[i])
        => /\ kargs' = kargs
           /\ config' = config
           /\ dirs' = dirs /\ files' = files]_vars

\* the call has been made twice on a config mapping, and nothing exists on disk
C20_Witness ==
    \E i \in 1..2 :
        /\ kagain[i] # NoCall
        /\ IsDict(kargs[i].config)
        /\ dirs = {} /\ DOMAIN files = {}

(***************************************************************************)
(* C21.  No step of a config construction or of an evaluation removes an   *)
(* entry file: the set of entry file names only grows.                     *)
(***************************************************************************)
C21_EntriesNeverRemoved ==
    [][\A f \in DOMAIN files : f \in DOMAIN files']_vars

\* a second entry has been written next to the first
C21_Witness ==
    \E p \in SeqProcs :
        /\ pc[p] = "done" /\ loaded[p] = "miss" /\ InIo(p, "open_wb")
        /\ \E f \in DOMAIN files : f # cache_filename[p] /\ CanUnpickle(files[f])

(***************************************************************************)
(* C22.  The entry file an evaluation has written holds a mapping with     *)
(* exactly the keys "outputs" and "discrete_outputs", in this order, whose *)
(* values are the mappings of the outputs and of the discrete outputs      *)
(* passed to cache_outputs; the latter is empty when none were passed.     *)
(***************************************************************************)
C22_EntryFormat ==
    \A p \in SeqProcs :
        (pc[p] = "done" /\ loaded[p] = "miss" /\ config[p].enable_caching)
        => /\ cache_filename[p] \in DOMAIN files
           /\ CanUnpickle(files[cache_filename[p]])
           /\ LET entry == Unpickle(files[cache_filename[p]]).val
              IN  /\ Names(entry) = <<"outputs", "discrete_outputs">>
                  /\ Get(entry, "outputs") = Dict(outputs[p])
                  /\ Get(entry, "discrete_outputs") = Dict(discrete_outputs[p])
                  /\ call[p].discrete_outputs = <<>>
                        => Get(entry, "discrete_outputs") = EmptyDict

\* an entry with a discrete output has been written
C22_Witness ==
    \E p \in SeqProcs :
        /\ pc[p] = "done" /\ loaded[p] = "miss" /\ config[p].enable_caching
        /\ call[p].discrete_outputs # <<>>
        /\ CanUnpickle(files[cache_filename[p]])

(***************************************************************************)
(* C28 (as claimed).  set_outputs_from_cache_dict adds no name: after      *)
(* load_outputs has read an entry the outputs hold exactly the declared    *)
(* output names and the discrete outputs exactly the declared discrete     *)
(* output names.                                                           *)
(***************************************************************************)
C28_SetOutputsAddsNoName ==
    \A p \in SeqProcs :
        loaded[p] \in {"hit", "raised"}
        => /\ Names(outputs[p]) = Names(DeclaredOutputs)
           /\ Names(discrete_outputs[p]) = Names(call[p].discrete_outputs)

(***************************************************************************)
(* Resizeable performance models.  ResizeablePerformanceModelBaseConfig    *)
(* validates its sizing parameters when it is constructed;                 *)
(* ResizeablePerformanceModelBaseClass.setup reads them from self.config   *)
(* and declares the sizing inputs.                                         *)
(***************************************************************************)
None == [kind |-> "none"]

valid_modes == {"normal", "resize_by_max_feedstock", "resize_by_max_commodity"}

\* the sizing parameters a technology configuration may give
SizeModes == valid_modes \cup {"resize_by_min_feedstock"}
FlowsUsedForSizing == {None, PyStr("hydrogen")}
ResizeParameters ==
    [size_mode : SizeModes, flow_used_for_sizing : FlowsUsedForSizing,
     max_feedstock_ratio : {1, 2}, max_commodity_ratio : {1, 2}]

\* __attrs_post_init__: what constructing the config raises
ResizeablePerformanceModelBaseConfig_post_init(cfg) ==
    IF cfg.size_mode \notin valid_modes THEN "ValueError"
    ELSE IF cfg.size_mode # "normal" /\ cfg.flow_used_for_sizing = None THEN "ValueError"
    ELSE "none"

\* setup that declares the sizing flow without looking at it
ResizeablePerformanceModelBaseClass_setup_flow_unchecked(cfg) ==
    LET size_mode == cfg.size_mode
        declared == << <<"size_mode", PyStr(size_mode)>> >>
    IN  IF size_mode \notin {"normal", "resize_by_max_feedstock", "resize_by_max_commodity"}
        THEN [raised |-> "ValueError", discrete_inputs |-> declared, inputs |-> <<>>]
        ELSE IF size_mode = "normal"
        THEN [raised |-> "none", discrete_inputs |-> declared, inputs |-> <<>>]
        ELSE [raised |-> "none",
              discrete_inputs |->
                  Append(declared, <<"flow_used_for_sizing", cfg.flow_used_for_sizing>>),
              inputs |->
                  IF size_mode = "resize_by_max_commodity"
                  THEN << <<"max_commodity_ratio", Num(cfg.max_commodity_ratio)>> >>
                  ELSE << <<"max_feedstock_ratio", Num(cfg.max_feedstock_ratio)>> >>]

\* setup: the inputs declared before it returns or raises
ResizeablePerformanceModelBaseClass_setup(cfg) ==
    LET size_mode == cfg.size_mode
        declared == << <<"size_mode", PyStr(size_mode)>> >>
    IN  IF size_mode \notin {"normal", "resize_by_max_feedstock", "resize_by_max_commodity"}
        THEN [raised |-> "ValueError", discrete_inputs |-> declared, inputs |-> <<>>]
        ELSE IF size_mode = "normal"
        THEN [raised |-> "none", discrete_inputs |-> declared, inputs |-> <<>>]
        ELSE IF cfg.flow_used_for_sizing = None
        THEN [raised |-> "ValueError", discrete_inputs |-> declared, inputs |-> <<>>]
        ELSE [raised |-> "none",
              discrete_inputs |->
                  Append(declared, <<"flow_used_for_sizing", cfg.flow_used_for_sizing>>),
              inputs |->
                  IF size_mode = "resize_by_max_commodity"
                  THEN << <<"max_commodity_ratio", Num(cfg.max_commodity_ratio)>> >>
                  ELSE << <<"max_feedstock_ratio", Num(cfg.max_feedstock_ratio)>> >>]

\* ResizeablePerformanceModelBaseConfig(**parameters)
ConstructResizeableConfig ==
    /\ tech.component = "resizeable"
    /\ built.stage = "none"
    /\ LET raised == ResizeablePerformanceModelBaseConfig_post_init(tech.parameters)
       IN  built' = [stage |-> IF raised = "none" THEN "config" ELSE "failed",
                     config |-> IF raised = "none" THEN tech.parameters ELSE None,
                     raised |-> raised, discrete_inputs |-> <<>>, inputs |-> <<>>]
    /\ UNCHANGED <<tech, evalVars, keyVars>>

\* an attribute of the config object is assigned after construction: the class is a
\* plain attrs class, whose fields stay assignable and are validated only in
\* __attrs_post_init__
SetSizingAttribute ==
    /\ tech.component = "resizeable"
    /\ built.stage = "config"
    /\ \E m \in SizeModes, f \in FlowsUsedForSizing :
          built' = [built EXCEPT !.config.size_mode = m, !.config.flow_used_for_sizing = f]
    /\ UNCHANGED <<tech, evalVars, keyVars>>

\* ResizeablePerformanceModelBaseClass.setup on a component whose self.config is set
SetupResizeable ==
    /\ tech.component = "resizeable"
    /\ built.stage = "config"
    /\ LET r == ResizeablePerformanceModelBaseClass_setup(built.config)
       IN  built' = [built EXCEPT !.stage = IF r.raised = "none" THEN "setup"
                                            ELSE "setup_failed",
                                  !.raised = r.raised,
                                  !.discrete_inputs = r.discrete_inputs,
                                  !.inputs = r.inputs]
    /\ UNCHANGED <<tech, evalVars, keyVars>>

NextResize ==
    \/ ConstructResizeableConfig
    \/ SetSizingAttribute
    \/ SetupResizeable

InitResize ==
    /\ EvalInit
    /\ KeyIdle
    /\ tech \in [component : {"resizeable"}, parameters : ResizeParameters]
    /\ built = NotBuilt

SpecResize == InitResize /\ [][NextResize]_vars

\* the sizing parameters the claim says are rejected
SizingRejected(cfg) ==
    \/ cfg.size_mode \notin {"normal", "resize_by_max_feedstock", "resize_by_max_commodity"}
    \/ cfg.size_mode # "normal" /\ cfg.flow_used_for_sizing = None

\* C24: constructing ResizeablePerformanceModelBaseConfig raises ValueError exactly when
\* size_mode is not one of the three modes, or is not "normal" while flow_used_for_sizing
\* is None; every other combination constructs; and setup raises ValueError on exactly
\* the same combinations of the config it reads, and completes on all the others.
C24_SizingValidationAgrees ==
    tech.component = "resizeable" =>
        /\ built.stage = "failed" =>
              SizingRejected(tech.parameters) /\ built.raised = "ValueError"
        /\ built.stage = "config" =>
              ~SizingRejected(tech.parameters) /\ built.raised = "none"
        /\ built.stage = "setup" => ~SizingRejected(built.config) /\ built.raised = "none"
        /\ built.stage = "setup_failed" =>
              SizingRejected(built.config) /\ built.raised = "ValueError"

\* setup has refused a resize mode whose flow is None
C24_Witness ==
    /\ tech.component = "resizeable"
    /\ built.stage = "setup_failed"
    /\ built.config.size_mode = "resize_by_max_feedstock"
    /\ built.config.flow_used_for_sizing = None

(***************************************************************************)
(* HOPPComponent.  Its config carries the HOPP technology configuration,   *)
(* the cost year and the electrolyzer rating; the project lifetime is an   *)
(* option of the plant configuration, read in compute and handed to        *)
(* run_hopp.  compute calls load_outputs and cache_outputs with the        *)
(* inputs, the outputs and the (empty) discrete inputs only.               *)
(***************************************************************************)
PlantLives == {25, 30}

hopp_config(num_turbines) ==
    Dict(<< <<"technologies",
              Dict(<< <<"wind", Dict(<< <<"num_turbines", Num(num_turbines)>>,
                                        <<"turbine_rating_kw", Num(5000)>> >>)>> >>)>> >>)

HoppConfigs ==
    [enable_caching : BOOLEAN, cache_dir : {"cacheA"},
     hopp_config : {hopp_config(n) : n \in {4, 5}}, cost_year : {2022},
     electrolyzer_rating : {40}]

HoppCalls ==
    {Args(<< <<"wind_turbine_rating_kw", NdArray(<<r>>)>> >>, <<>>, EmptyDict, <<>>) :
        r \in {5000, 6000}}

\* the hybrid interface HOPP is set up with: a fixed function of the arguments
setup_hopp(cfg, inputs) ==
    [hopp_config |-> cfg.hopp_config, ratings |-> inputs,
     electrolyzer_rating |-> cfg.electrolyzer_rating]

\* the HOPP run: a fixed function of the interface and the project lifetime
run_hopp(hybrid_interface, project_lifetime, name) ==
    [kind |-> "result", val |-> <<name, hybrid_interface, project_lifetime>>]

\* the plant configuration handed to the component gives the project lifetime
SetPlantLife(p) ==
    /\ pc[p] \in {"new", "done"}
    /\ \E life \in PlantLives \ {plant_life[p]} :
          plant_life' = [plant_life EXCEPT ![p] = life]
    /\ UNCHANGED <<config, pc, call, outputs, discrete_outputs, loaded, cache_filename,
                   woff, io, evals, dirs, files, hist, seen, stored, keyVars, techVars>>

\* on a miss compute sets HOPP up, runs it over the project lifetime and sets the outputs
RunHopp(p) ==
    /\ pc[p] = "compute"
    /\ LET hybrid_interface == setup_hopp(config[p], call[p].inputs)
       IN  outputs' = [outputs EXCEPT ![p] =
                [i \in 1..Len(@) |->
                    <<@[i][1], run_hopp(hybrid_interface, plant_life[p], @[i][1])>>]]
    /\ pc' = [pc EXCEPT ![p] = "computed"]
    /\ UNCHANGED <<config, call, discrete_outputs, loaded, cache_filename, woff, io, evals,
                   dirs, files, hist, seen, stored, plant_life, keyVars, techVars>>

NextHopp ==
    \E p \in SeqProcs :
        \/ SetPlantLife(p)
        \/ Construct(p, HoppConfigs)
        \/ load_outputs(p, HoppCalls)
        \/ load_outputs_read(p)
        \/ RunHopp(p)
        \/ cache_outputs(p)
        \/ dump_write(p)

SpecHopp == Init /\ [][NextHopp]_vars

\* the project lifetime the entry in file f was computed for
LifetimesIn(f) ==
    LET outs == Get(Unpickle(files[f]).val, "outputs").val
    IN  {outs[i][2].val[3] : i \in 1..Len(outs)}

\* C23 (as claimed): HOPPComponent's cache is keyed on the configuration and the project
\* lifetime, so the entry an evaluation's lookup finds was computed for the evaluation's
\* own plant_life: an evaluation with another plant_life is not served it.
C23_KeyedOnProjectLifetime ==
    \A p \in SeqProcs :
        (pc[p] = "loading" /\ CanUnpickle(files[cache_filename[p]])) =>
            LifetimesIn(cache_filename[p]) = {plant_life[p]}

(***************************************************************************)
(* Cost models of the iron-reduction plant and the electric arc furnace.   *)
(* setup merges the cost parameters of the technology configuration,       *)
(* refuses a cost year among them, takes the cost year from the plant's    *)
(* target_dollar_year (a calendar year, an int) and builds the config      *)
(* object from the merged parameters; cost_year has converter int, which   *)
(* leaves the int it is given as it is.  CostModelBaseClass.setup then     *)
(* declares the discrete output cost_year from the config.                 *)
(***************************************************************************)
TargetDollarYears == 2007..2027

\* a cost year the user put among the cost parameters
CostYearsGiven == {Num(2022), Num(2015), None}

\* merge_shared_inputs(model_inputs, "cost") of a technology configuration
MergedCostParameters(rate) ==
    LET base == << <<rate, Num(100)>>, <<"skilled_labor_cost", Num(40)>>,
                   <<"unskilled_labor_cost", Num(30)>> >>
    IN  {base} \cup {Append(base, <<"cost_year", y>>) : y \in CostYearsGiven}
                \cup {<< <<"cost_year", y>> >> \o base : y \in CostYearsGiven}

\* setup that lets a cost year among the cost parameters stand
IronReductionPlantBaseCostComponent_setup_user_cost_year(config_dict, target_dollar_year) ==
    LET year == IF target_dollar_year <= 2024 /\ target_dollar_year >= 2010
                     THEN target_dollar_year
                     ELSE IF target_dollar_year < 2010 THEN 2010
                     ELSE IF target_dollar_year > 2024 THEN 2024
                     ELSE target_dollar_year
             updated == IF HasName(config_dict, "cost_year") THEN config_dict
                        ELSE SetItem(config_dict, "cost_year", Num(year))
         IN  [raised |-> "none", from_dict_calls |-> 1,
              config |-> [pig_iron_production_rate_tonnes_per_hr |-> Get(updated, "pig_iron_production_rate_tonnes_per_hr").val,
                          cost_year |-> Get(updated, "cost_year"),
                          skilled_labor_cost |-> Get(updated, "skilled_labor_cost").val,
                          unskilled_labor_cost |-> Get(updated, "unskilled_labor_cost").val]]

\* IronReductionPlantBaseCostComponent.setup up to the config object
IronReductionPlantBaseCostComponent_setup(config_dict, target_dollar_year) ==
    IF HasName(config_dict, "cost_year")
    THEN [raised |-> "ValueError", from_dict_calls |-> 0, config |-> None]
    ELSE LET year == IF target_dollar_year <= 2024 /\ target_dollar_year >= 2010
                     THEN target_dollar_year
                     ELSE IF target_dollar_year < 2010 THEN 2010
                     ELSE IF target_dollar_year > 2024 THEN 2024
                     ELSE target_dollar_year
             updated == SetItem(config_dict, "cost_year", Num(year))
         IN  [raised |-> "none", from_dict_calls |-> 1,
              config |-> [pig_iron_production_rate_tonnes_per_hr |-> Get(updated, "pig_iron_production_rate_tonnes_per_hr").val,
                          cost_year |-> Get(updated, "cost_year").val,
                          skilled_labor_cost |-> Get(updated, "skilled_labor_cost").val,
                          unskilled_labor_cost |-> Get(updated, "unskilled_labor_cost").val]]

\* setup that leaves a target dollar year after 2024 as it is
ElectricArcFurnacePlantBaseCostComponent_setup_late_year(config_dict, target_dollar_year) ==
    IF HasName(config_dict, "cost_year")
    THEN [raised |-> "ValueError", from_dict_calls |-> 0, config |-> None]
    ELSE LET year == IF target_dollar_year <= 2024 /\ target_dollar_year >= 2010
                     THEN target_dollar_year
                     ELSE IF target_dollar_year < 2010 THEN 2010
                     ELSE target_dollar_year
             updated == SetItem(config_dict, "cost_year", Num(year))
         IN  [raised |-> "none", from_dict_calls |-> 1,
              config |-> [steel_production_rate_tonnes_per_hr |-> Get(updated, "steel_production_rate_tonnes_per_hr").val,
                          cost_year |-> Get(updated, "cost_year").val,
                          skilled_labor_cost |-> Get(updated, "skilled_labor_cost").val,
                          unskilled_labor_cost |-> Get(updated, "unskilled_labor_cost").val]]

\* ElectricArcFurnacePlantBaseCostComponent.setup up to the config object
ElectricArcFurnacePlantBaseCostComponent_setup(config_dict, target_dollar_year) ==
    IF HasName(config_dict, "cost_year")
    THEN [raised |-> "ValueError", from_dict_calls |-> 0, config |-> None]
    ELSE LET year == IF target_dollar_year <= 2024 /\ target_dollar_year >= 2010
                     THEN target_dollar_year
                     ELSE IF target_dollar_year < 2010 THEN 2010
                     ELSE IF target_dollar_year > 2024 THEN 2024
                     ELSE target_dollar_year
             updated == SetItem(config_dict, "cost_year", Num(year))
         IN  [raised |-> "none", from_dict_calls |-> 1,
              config |-> [steel_production_rate_tonnes_per_hr |-> Get(updated, "steel_production_rate_tonnes_per_hr").val,
                          cost_year |-> Get(updated, "cost_year").val,
                          skilled_labor_cost |-> Get(updated, "skilled_labor_cost").val,
                          unskilled_labor_cost |-> Get(updated, "unskilled_labor_cost").val]]

\* what setup leaves behind: the config, and the discrete output CostModelBaseClass.setup
\* declares from it
CostSetupResult(r) ==
    [stage |-> IF r.raised = "none" THEN "setup" ELSE "failed",
     raised |-> r.raised, from_dict_calls |-> r.from_dict_calls, config |-> r.config,
     discrete_outputs |-> IF r.raised = "none"
                          THEN << <<"cost_year", Num(r.config.cost_year)>> >>
                          ELSE <<>>]

SetupIronReductionCost ==
    /\ tech.component = "iron_dri_cost"
    /\ built.stage = "none"
    /\ built' = CostSetupResult(IronReductionPlantBaseCostComponent_setup(
                    tech.cost_parameters, tech.target_dollar_year))
    /\ UNCHANGED <<tech, evalVars, keyVars>>

SetupElectricArcFurnaceCost ==
    /\ tech.component = "eaf_cost"
    /\ built.stage = "none"
    /\ built' = CostSetupResult(ElectricArcFurnacePlantBaseCostComponent_setup(
                    tech.cost_parameters, tech.target_dollar_year))
    /\ UNCHANGED <<tech, evalVars, keyVars>>

NextCost ==
    \/ SetupIronReductionCost
    \/ SetupElectricArcFurnaceCost

InitCost ==
    /\ EvalInit
    /\ KeyIdle
    /\ tech \in
        [component : {"iron_dri_cost"},
         cost_parameters : MergedCostParameters("pig_iron_production_rate_tonnes_per_hr"),
         target_dollar_year : TargetDollarYears]
        \cup
        [component : {"eaf_cost"},
         cost_parameters : MergedCostParameters("steel_production_rate_tonnes_per_hr"),
         target_dollar_year : TargetDollarYears]
    /\ built = NotBuilt

SpecCost == InitCost /\ [][NextCost]_vars

\* C25: whenever the merged cost parameters of the iron-reduction or electric-arc-furnace
\* cost model contain a cost_year key, whatever its value, setup raises ValueError and
\* has built no config object.
C25_CostYearNotUserSettable ==
    (/\ tech.component \in {"iron_dri_cost", "eaf_cost"}
     /\ built.stage # "none"
     /\ HasName(tech.cost_parameters, "cost_year")) =>
        /\ built.stage = "failed"
        /\ built.raised = "ValueError"
        /\ built.from_dict_calls = 0
        /\ built.config = None

\* setup of the arc furnace cost model has refused a cost year given as None
C25_Witness ==
    /\ tech.component = "eaf_cost"
    /\ built.stage = "failed"
    /\ HasName(tech.cost_parameters, "cost_year")
    /\ Get(tech.cost_parameters, "cost_year") = None

\* C30: after setup of the iron-reduction or electric-arc-furnace cost model,
\* config.cost_year is the plant's target_dollar_year clamped to 2010..2024: the year
\* itself from 2010 to 2024, 2010 before and 2024 after, hence always within 2010..2024.
C30_CostYearClamped ==
    (tech.component \in {"iron_dri_cost", "eaf_cost"} /\ built.stage = "setup") =>
        LET t == tech.target_dollar_year
            cost_year == built.config.cost_year
        IN  /\ (2010 <= t /\ t <= 2024) => cost_year = t
            /\ t < 2010 => cost_year = 2010
            /\ t > 2024 => cost_year = 2024
            /\ cost_year \in 2010..2024

\* the arc furnace cost model was set up for a target dollar year after 2024
C30_Witness ==
    /\ tech.component = "eaf_cost"
    /\ built.stage = "setup"
    /\ tech.target_dollar_year > 2024
    /\ built.config.cost_year = 2024

(***************************************************************************)
(* save_case_timeseries_as_csv (postprocess/sql_timeseries_to_csv.py): the *)
(* part after the case is read from the recorder file.  A case variable    *)
(* has a promoted name, a value and units; a connected input and its       *)
(* output share one promoted name.                                         *)
(***************************************************************************)
CaseVar(prom_name, val, units) == [prom_name |-> prom_name, val |-> val, units |-> units]

\* case.list_outputs and case.list_inputs of the recorded case
CaseOutputs ==
    << CaseVar("electricity_out", NdArray(<<5, 6, 7>>), "kW"),
       CaseVar("aep", NdArray(<<18>>), "kW*h"),
       CaseVar("VarOpEx", NdArray(<<3, 3>>), "USD/year") >>

CaseInputs ==
    << CaseVar("electricity_out", NdArray(<<5, 6, 7>>), "kW"),
       CaseVar("hydrogen_demand", NdArray(<<1, 1, 1>>), "t/h"),
       CaseVar("wind_resource_data", Dict(<< <<"site_lat", Num(44)>> >>), "") >>

CaseVars == CaseOutputs \o CaseInputs

\* the order of the names under list.sort() (by code point: capitals first)
SortRank ==
    [n \in {"VarOpEx", "aep", "electricity_out", "hydrogen_demand", "wind_resource_data"} |->
        CASE n = "VarOpEx" -> 1
          [] n = "aep" -> 2
          [] n = "electricity_out" -> 3
          [] n = "hydrogen_demand" -> 4
          [] n = "wind_resource_data" -> 5]

\* case.get_val(var) and case._get_units(var)
CaseVal(var) == CHOOSE i \in 1..Len(CaseVars) : CaseVars[i].prom_name = var

case_get_val(var) == CaseVars[CaseVal(var)].val

case_get_units(var) == CaseVars[CaseVal(var)].units

\* the names vars_to_save may hold: those of the case and one the case does not have
SaveNames == DOMAIN SortRank \cup {"hydrogen_out"}

\* vars_to_save: a list of names, or a dict from names to the units to save them in
VarsToSave == [kind : {"list", "dict"}, names : SUBSET SaveNames, units : {"MW"}]

\* the units check_get_units_for_var returns: the user's, or the default ones with
\* their electricity unit replaced by the base unit
check_get_units_for_var(var, electricity_base_unit, user_specified_unit) ==
    IF user_specified_unit # None THEN user_specified_unit.val
    ELSE LET var_unit == case_get_units(var)
         IN  CASE var_unit = "kW" -> electricity_base_unit
               [] var_unit = "kW*h" -> electricity_base_unit \o "*h"
               [] OTHER -> var_unit

\* "varopex" in var.lower() or "annual_fixed_costs" in var.lower(), on the case's names
PerYearCost(var) == var \in {"VarOpEx"}

\* the variables the loop of save_case_timeseries_as_csv keeps, in order
RECURSIVE KeptColumns(_, _, _)
KeptColumns(var_list, vars_to_save, kept) ==
    IF var_list = <<>> THEN kept
    ELSE LET var == Head(var_list)
             val == case_get_val(var)
             skip == \/ HasName(kept, var)
                     \/ PerYearCost(var)
                     \/ val.kind = "dict"
                     \/ ~(val.kind = "ndarray" /\ Len(val.val) > 1)
             user_units == IF vars_to_save.names # {} /\ vars_to_save.kind = "dict"
                           THEN PyStr(vars_to_save.units)
                           ELSE None
         IN  KeptColumns(Tail(var_list), vars_to_save,
                         IF skip THEN kept
                         ELSE Append(kept,
                                <<var, check_get_units_for_var(var, "MW", user_units)>>))

\* save_case_timeseries_as_csv from the list of the case's names on: what it raises, the
\* columns "name (units)" of the frame it returns, and whether it wrote the csv file
save_case_timeseries_as_csv(vars_to_save) ==
    LET all == SortSeq([i \in 1..Len(CaseVars) |-> CaseVars[i].prom_name],
                       LAMBDA a, b : SortRank[a] < SortRank[b])
        var_list == IF vars_to_save.names # {}
                    THEN SelectSeq(all, LAMBDA v : v \in vars_to_save.names)
                    ELSE all
    IN  IF Len(var_list) = 0
        THEN [raised |-> "ValueError", columns |-> <<>>, written |-> FALSE]
        ELSE [raised |-> "none", columns |-> KeptColumns(var_list, vars_to_save, <<>>),
              written |-> TRUE]

SaveCaseTimeseriesAsCsv ==
    /\ tech.component = "save_case_timeseries_as_csv"
    /\ built.stage = "none"
    /\ LET r == save_case_timeseries_as_csv(tech.vars_to_save)
       IN  built' = [stage |-> IF r.raised = "none" THEN "returned" ELSE "failed",
                     raised |-> r.raised, columns |-> r.columns, written |-> r.written]
    /\ UNCHANGED <<tech, evalVars, keyVars>>

NextCsv == SaveCaseTimeseriesAsCsv

InitCsv ==
    /\ EvalInit
    /\ KeyIdle
    /\ tech \in [component : {"save_case_timeseries_as_csv"}, vars_to_save : VarsToSave]
    /\ built = NotBuilt

SpecCsv == InitCsv /\ [][NextCsv]_vars

\* a valid timeseries variable of the case, as the claim defines it: a case input or
\* output whose value is an array of more than one element and that is no per-year cost
ValidTimeseries(name) ==
    \E i \in 1..Len(CaseVars) :
        /\ CaseVars[i].prom_name = name
        /\ CaseVars[i].val.kind = "ndarray"
        /\ Len(CaseVars[i].val.val) > 1
        /\ ~PerYearCost(name)

\* C26 (as claimed): save_case_timeseries_as_csv raises ValueError whenever vars_to_save
\* is a non-empty list or dictionary that names no valid timeseries variable of the case.
C26_NoTimeseriesNamedRaises ==
    (/\ tech.component = "save_case_timeseries_as_csv"
     /\ built.stage # "none"
     /\ tech.vars_to_save.names # {}
     /\ \A n \in tech.vars_to_save.names : ~ValidTimeseries(n)) =>
        built.raised = "ValueError"

(***************************************************************************)
(* Performance models of the iron-reduction plant and the electric arc     *)
(* furnace: compute of IronReductionPlantBasePerformanceComponent and of   *)
(* ElectricArcFurnacePlantBasePerformanceComponent.  Quantities are        *)
(* floating-point numbers; the model keeps them on a grid of representable *)
(* values (the integers), on which sums, products and comparisons of the   *)
(* values used are exact and a quotient is rounded to the nearest          *)
(* representable value, ties to even.                                      *)
(***************************************************************************)
\* a / b in floating point, for a >= 0 and b > 0
float_div(a, b) ==
    LET q == a \div b
        r == a % b
    IN  IF 2 * r > b THEN q + 1
        ELSE IF 2 * r = b THEN q + (q % 2)
        ELSE q

\* np.where(a > b, b, a) on two arrays of one length
np_where_gt(a, b) == [t \in 1..Len(a) |-> IF a[t] > b[t] THEN b[t] ELSE a[t]]

\* np.minimum.reduce(rows): the elementwise minimum of the rows
np_minimum_reduce(rows) ==
    [t \in 1..Len(rows[1]) |->
        CHOOSE m \in {rows[i][t] : i \in 1..Len(rows)} :
            \A i \in 1..Len(rows) : m <= rows[i][t]]

\* feedstocks_usage_rates of the hydrogen DRI plant and of the arc furnace, per tonne
\* of product: what compute reads from the coefficient table (rows with Value > 0)
IronFeedstocksUsageRates ==
    << <<"natural_gas", 2>>, <<"water", 3>>, <<"iron_ore", 1>>, <<"electricity", 3>>,
       <<"hydrogen", 2>> >>

SteelFeedstocksUsageRates ==
    << <<"natural_gas", 1>>, <<"water", 2>>, <<"pig_iron", 1>>, <<"electricity", 3>> >>

FeedstockTypes(rates) == {rates[i][1] : i \in 1..Len(rates)}

\* the timesteps of the simulation
Timesteps == 1..2

\* the inputs of one compute: capacity, demand and available feedstock per timestep
PerformanceInputs(rates) ==
    [system_capacity : {2, 3},
     demand : [Timesteps -> {1, 4}],
     feedstock_in : [FeedstockTypes(rates) -> [Timesteps -> {2, 7}]]]

\* compute that takes the minimum over the feedstocks alone
PerformanceCompute_feedstocks_only(feedstocks_usage_rates, inputs) ==
    LET capacity == inputs.system_capacity
        n == Len(inputs.demand)
        \* demand, saturated at maximum rated system capacity
        demand == np_where_gt(inputs.demand, [t \in 1..n |-> capacity])
        from_feedstock(i) ==
            LET feedstock_type == feedstocks_usage_rates[i][1]
                consumption_rate == feedstocks_usage_rates[i][2]
                max_feedstock_consumption == capacity * consumption_rate
                feedstock_available ==
                    np_where_gt(inputs.feedstock_in[feedstock_type],
                                [t \in 1..n |-> max_feedstock_consumption])
            IN  [t \in 1..n |-> float_div(feedstock_available[t], consumption_rate)]
        production == np_minimum_reduce([i \in 1..Len(feedstocks_usage_rates) |-> from_feedstock(i)])
    IN  [out |-> production,
         consumed |-> [i \in 1..Len(feedstocks_usage_rates) |->
                        <<feedstocks_usage_rates[i][1],
                          [t \in 1..n |-> production[t] * feedstocks_usage_rates[i][2]]>>]]

\* the body of compute from the saturated demand on: the product made at each
\* timestep and the feedstock consumed for it
PerformanceCompute(feedstocks_usage_rates, inputs) ==
    LET capacity == inputs.system_capacity
        n == Len(inputs.demand)
        \* demand, saturated at maximum rated system capacity
        demand == np_where_gt(inputs.demand, [t \in 1..n |-> capacity])
        from_feedstock(i) ==
            LET feedstock_type == feedstocks_usage_rates[i][1]
                consumption_rate == feedstocks_usage_rates[i][2]
                max_feedstock_consumption == capacity * consumption_rate
                feedstock_available ==
                    np_where_gt(inputs.feedstock_in[feedstock_type],
                                [t \in 1..n |-> max_feedstock_consumption])
            IN  [t \in 1..n |-> float_div(feedstock_available[t], consumption_rate)]
        production == np_minimum_reduce(<<demand>> \o [i \in 1..Len(feedstocks_usage_rates) |-> from_feedstock(i)])
    IN  [out |-> production,
         consumed |-> [i \in 1..Len(feedstocks_usage_rates) |->
                        <<feedstocks_usage_rates[i][1],
                          [t \in 1..n |-> production[t] * feedstocks_usage_rates[i][2]]>>]]

IronReductionPlantBasePerformanceComponent_compute(inputs) ==
    PerformanceCompute(IronFeedstocksUsageRates, inputs)

ElectricArcFurnacePlantBasePerformanceComponent_compute(inputs) ==
    PerformanceCompute(SteelFeedstocksUsageRates, inputs)

ComputeIronReduction ==
    /\ tech.component = "iron_dri_performance"
    /\ built.stage = "none"
    /\ LET r == IronReductionPlantBasePerformanceComponent_compute(tech.inputs)
       IN  built' = [stage |-> "computed", out |-> r.out, consumed |-> r.consumed]
    /\ UNCHANGED <<tech, evalVars, keyVars>>

ComputeElectricArcFurnace ==
    /\ tech.component = "eaf_performance"
    /\ built.stage = "none"
    /\ LET r == ElectricArcFurnacePlantBasePerformanceComponent_compute(tech.inputs)
       IN  built' = [stage |-> "computed", out |-> r.out, consumed |-> r.consumed]
    /\ UNCHANGED <<tech, evalVars, keyVars>>

NextPerformance ==
    \/ ComputeIronReduction
    \/ ComputeElectricArcFurnace

InitPerformance ==
    /\ EvalInit
    /\ KeyIdle
    /\ tech \in
        [component : {"iron_dri_performance"},
         feedstocks_usage_rates : {IronFeedstocksUsageRates},
         inputs : PerformanceInputs(IronFeedstocksUsageRates)]
        \cup
        [component : {"eaf_performance"},
         feedstocks_usage_rates : {SteelFeedstocksUsageRates},
         inputs : PerformanceInputs(SteelFeedstocksUsageRates)]
    /\ built = NotBuilt

SpecPerformance == InitPerformance /\ [][NextPerformance]_vars

Computed == tech.component \in {"iron_dri_performance", "eaf_performance"}
                /\ built.stage = "computed"

Smaller(a, b) == IF a < b THEN a ELSE b

\* what the claim says is produced at timestep t
ClaimedProduction(t) ==
    LET rates == tech.feedstocks_usage_rates
        capacity == tech.inputs.system_capacity
        limits == {Smaller(tech.inputs.demand[t], capacity)}
                  \cup {float_div(Smaller(tech.inputs.feedstock_in[rates[i][1]][t],
                                          capacity * rates[i][2]), rates[i][2]) :
                            i \in 1..Len(rates)}
    IN  CHOOSE m \in limits : \A l \in limits : m <= l

====
